---------------------------- MODULE Spec2Model ----------------------------
(***************************************************************************)
(* A model of xoshiro.hpp: the xoshiro256++ and xoshiro128++ engines, the  *)
(* splitmix64 seed expander and the bit helpers they use.                  *)
(*                                                                         *)
(* TLC's integers are 32 bits wide, so an unsigned word is kept as the     *)
(* sequence of its bytes, least significant byte first: a std::uint64_t is *)
(* a sequence of 8 bytes, a std::uint32_t a sequence of 4.  All arithmetic *)
(* is done on that representation modulo 2^64 or 2^32, as the C++ unsigned *)
(* types do it.                                                            *)
(***************************************************************************)
EXTENDS Integers, Sequences

---------------------------------------------------------------------------
(* Words.                                                                  *)

\* sizeof(std::uint64_t) and sizeof(std::uint32_t)
SizeOf64 == 8
SizeOf32 == 4

RECURSIVE Pow2(_)
Pow2(n) == IF n = 0 THEN 1 ELSE 2 * Pow2(n - 1)

\* The sequence f[1], ..., f[n], each element computed once.
Seq1(f, n) == SubSeq(f, 1, n)

\* The word of n bytes with value v, for a value v that fits a TLC integer.
RECURSIVE LitByte(_, _)
LitByte(v, i) == IF i = 1 THEN v % 256 ELSE LitByte(v \div 256, i - 1)

Lit(v, n) == Seq1([i \in 1..n |-> LitByte(v, i)], n)

\* A word written as in the source, most significant byte first.
Hex(bytes) == Seq1([i \in 1..Len(bytes) |-> bytes[Len(bytes) + 1 - i]], Len(bytes))

Zero(n) == Seq1([i \in 1..n |-> 0], n)
Ones(n) == Seq1([i \in 1..n |-> 255], n)

\* Bit p (0 = least significant) of the word x.
Bit(x, p) == (x[(p \div 8) + 1] \div Pow2(p % 8)) % 2

\* The word of n bytes whose only set bit is bit p.
OneBit(p, n) == Seq1([i \in 1..n |-> IF i = (p \div 8) + 1 THEN Pow2(p % 8) ELSE 0], n)

RECURSIVE XorBits(_, _, _)
XorBits(a, b, n) ==
    IF n = 0 THEN 0
    ELSE ((a + b) % 2) + 2 * XorBits(a \div 2, b \div 2, n - 1)

RECURSIVE OrBits(_, _, _)
OrBits(a, b, n) ==
    IF n = 0 THEN 0
    ELSE (IF a % 2 = 1 \/ b % 2 = 1 THEN 1 ELSE 0)
         + 2 * OrBits(a \div 2, b \div 2, n - 1)

\* x ^ y and x | y on words of the same width.
Xor(x, y) == Seq1([i \in 1..Len(x) |-> XorBits(x[i], y[i], 8)], Len(x))
Or(x, y) == Seq1([i \in 1..Len(x) |-> OrBits(x[i], y[i], 8)], Len(x))

\* The carry into byte i of x + y.
RECURSIVE Carry(_, _, _)
Carry(x, y, i) ==
    IF i = 1 THEN 0 ELSE (x[i - 1] + y[i - 1] + Carry(x, y, i - 1)) \div 256

\* x + y on unsigned words of the same width: the sum modulo 2^width.
Add(x, y) == Seq1([i \in 1..Len(x) |-> (x[i] + y[i] + Carry(x, y, i)) % 256], Len(x))

\* Column k of the schoolbook product of x and y, and the carry into it.
RECURSIVE ColSum(_, _, _, _)
ColSum(x, y, k, i) ==
    IF i > k THEN 0 ELSE x[i] * y[k + 1 - i] + ColSum(x, y, k, i + 1)

RECURSIVE MulCarry(_, _, _)
MulCarry(x, y, k) ==
    IF k = 1 THEN 0
    ELSE (ColSum(x, y, k - 1, 1) + MulCarry(x, y, k - 1)) \div 256

\* x * y on unsigned words of the same width: the product modulo 2^width.
Mul(x, y) ==
    Seq1([k \in 1..Len(x) |-> (ColSum(x, y, k, 1) + MulCarry(x, y, k)) % 256], Len(x))

\* Byte i of x, and 0 outside the word.
At(x, i) == IF i >= 1 /\ i <= Len(x) THEN x[i] ELSE 0

\* x << k and x >> k for a shift count 0 <= k < width.
ShiftLeft(x, k) ==
    LET q == k \div 8
        r == k % 8
    IN  Seq1([i \in 1..Len(x) |->
                ((At(x, i - q) * Pow2(r)) % 256) + (At(x, i - q - 1) \div Pow2(8 - r))],
             Len(x))

ShiftRight(x, k) ==
    LET q == k \div 8
        r == k % 8
    IN  Seq1([i \in 1..Len(x) |->
                (At(x, i + q) \div Pow2(r)) + ((At(x, i + q + 1) * Pow2(8 - r)) % 256)],
             Len(x))

---------------------------------------------------------------------------
(* splitmix64, xoshiro.hpp lines 66-72.                                    *)

\* 0x9e3779b97f4a7c15, 0xbf58476d1ce4e5b9, 0x94d049bb133111eb
Gamma == Hex(<<158, 55, 121, 185, 127, 74, 124, 21>>)
MixA == Hex(<<191, 88, 71, 109, 28, 228, 229, 185>>)
MixB == Hex(<<148, 208, 73, 187, 19, 49, 17, 235>>)

\* splitmix64 with the increment left out: z = seed.
splitmix64_no_increment(seed) ==
    LET z1 == Mul(Xor(seed, ShiftRight(seed, 30)), MixA)
        z2 == Mul(Xor(z1, ShiftRight(z1, 27)), MixB)
    IN  Xor(z2, ShiftRight(z2, 31))

splitmix64(seed) ==
    LET z0 == Add(seed, Gamma)
        z1 == Mul(Xor(z0, ShiftRight(z0, 30)), MixA)
        z2 == Mul(Xor(z1, ShiftRight(z1, 27)), MixB)
    IN  Xor(z2, ShiftRight(z2, 31))


---------------------------------------------------------------------------
(* The state of the model.                                                 *)

VARIABLES
    byteOrder,  \* the host's byte order: "little" or "big"
    eng,        \* the engine class under test: "Xoshiro256PP" or "Xoshiro128PP"
    g,          \* g[x]: member `state` of generator x, an array of 4 words
    ret,        \* ret[x]: what the last call on generator x returned
    op,         \* the last call: its name, object, argument and the object's
                \* state before it, and the value a comparison returned
    prev,       \* the call before the last
    origin,     \* origin[x]: how generator x was last seeded, and the number
                \* of times its operator() ran since
    stream,     \* the byte stream operator<< wrote and operator>> reads
    calls,      \* the number of calls made so far
    rot         \* the last call of rotl64 or rotl32 and its result

vars == <<byteOrder, eng, g, ret, op, prev, origin, stream, calls, rot>>

Gens == {1, 2}

\* What a call of a void function leaves in ret.
Void == <<>>

\* An array of four words.  A sequence counts from 1: state[i] of the source is
\* element i + 1, which S(state, i) gives.
Arr(a, b, c, d) == <<a, b, c, d>>
S(state, i) == state[i + 1]

---------------------------------------------------------------------------
(* Bit helpers, xoshiro.hpp lines 27-58.                                   *)

\* The byte orders a host can have.  Where the code reads or writes the bytes
\* of a word (memcpy, memcmp, read, write), bo is the byte order of the host.
ByteOrders == {"little", "big"}

\* The object representation of a word: its bytes in address order.
Mem(x, bo) == IF bo = "little" THEN x ELSE Hex(x)

\* The word whose object representation is m.
Val(m, bo) == IF bo = "little" THEN m ELSE Hex(m)

\* x << k and x >> k as C++ defines them: the behaviour is undefined when
\* the count is negative or not less than the width, and undef is the value
\* the build leaves there.
Shl(x, k, undef) == IF k >= 0 /\ k < 8 * Len(x) THEN ShiftLeft(x, k) ELSE undef
Shr(x, k, undef) == IF k >= 0 /\ k < 8 * Len(x) THEN ShiftRight(x, k) ELSE undef

\* What a build can leave for a shift of x by its full width: x (the count
\* taken modulo the width), 0 (every bit shifted out), or anything else, of
\* which all ones stands as the example.
UndefShift(x) == {x, Zero(Len(x)), Ones(Len(x))}

rotl64(x, k, undef) == Or(Shl(x, k, undef), Shr(x, 64 - k, undef))

rotl32(x, k, undef) == Or(Shl(x, k, undef), Shr(x, 32 - k, undef))

\* memcpy of the first (left) and second (right) four bytes of x's object
\* representation into a std::uint32_t.
extract_32bits_from64_left(x, bo) == Val(SubSeq(Mem(x, bo), 1, SizeOf32), bo)

\* extract_32bits_from64_right without the `+ 1`: the first four bytes again.
extract_32bits_from64_right_no_offset(x, bo) == Val(SubSeq(Mem(x, bo), 1, SizeOf32), bo)

extract_32bits_from64_right(x, bo) ==
    Val(SubSeq(Mem(x, bo), SizeOf32 + 1, 2 * SizeOf32), bo)

\* assign_to is passed by value: the memcpy changes the callee's copy, and
\* the caller's variable, which these give, is as it was.
assign_32bits_to64_left(assign_to, take_from) == assign_to

assign_32bits_to64_right(assign_to, take_from) == assign_to

\* The conversions between std::uint32_t and std::uint64_t.
ZeroExtend(x) == x \o Zero(SizeOf64 - Len(x))
Truncate32(x) == SubSeq(x, 1, SizeOf32)

\* What an uninitialized std::uint64_t can hold when it is read.
Indeterminate64 == {Zero(SizeOf64), Ones(SizeOf64)}

---------------------------------------------------------------------------
(* Memory and streams.                                                     *)

\* The object representation of an array of four words.
ArrMem(a, bo) ==
    Mem(S(a, 0), bo) \o Mem(S(a, 1), bo) \o Mem(S(a, 2), bo) \o Mem(S(a, 3), bo)

\* The array of four words of n bytes whose object representation is m.
MemArr(m, n, bo) ==
    <<Val(SubSeq(m, 1, n), bo), Val(SubSeq(m, n + 1, 2 * n), bo),
      Val(SubSeq(m, 2 * n + 1, 3 * n), bo), Val(SubSeq(m, 3 * n + 1, 4 * n), bo)>>

\* std::memcpy(dst, src, n) on object representations.
memcpy(dst, src, n) ==
    Seq1([i \in 1..Len(dst) |-> IF i <= n THEN src[i] ELSE dst[i]], Len(dst))

\* std::memcmp(a, b, n): the sign of the first differing byte pair.
RECURSIVE MemCmpFrom(_, _, _, _)
MemCmpFrom(a, b, i, n) ==
    IF i > n THEN 0
    ELSE IF a[i] < b[i] THEN -1
    ELSE IF a[i] > b[i] THEN 1
    ELSE MemCmpFrom(a, b, i + 1, n)

memcmp(a, b, n) == MemCmpFrom(a, b, 1, n)

\* The conversion of an int to bool.
ToBool(i) == i # 0

\* ' '
Space == 32

\* An input stream: the bytes left to read and whether the stream is good.
IStream(bytes) == [buf |-> bytes, good |-> TRUE]

\* ist.read(dst, n): up to n bytes are taken; fewer than n sets failbit, and a
\* stream that is not good gives nothing.  dst is the object representation
\* read into.
Read(ist, dst, n) ==
    IF ~ist.good THEN [ist |-> ist, mem |-> dst]
    ELSE LET m == IF Len(ist.buf) < n THEN Len(ist.buf) ELSE n
         IN  [ist |-> [buf |-> SubSeq(ist.buf, m + 1, Len(ist.buf)), good |-> m = n],
              mem |-> memcpy(dst, ist.buf, m)]

\* ist.peek() in the place of ist.get(): the byte is left in the stream.
Get_leaves_byte(ist) == ist

\* ist.get(): one byte is taken and dropped.
Get(ist) ==
    IF ~ist.good THEN ist
    ELSE IF Len(ist.buf) = 0 THEN [ist EXCEPT !.good = FALSE]
    ELSE [ist EXCEPT !.buf = Tail(ist.buf)]


---------------------------------------------------------------------------
(* class Xoshiro256PP, xoshiro.hpp lines 84-195.  A generator is its member *)
(* `state`; a member function is given as the state (and the value) it      *)
(* leaves.                                                                  *)

\* {0x3d23dce41c588f8c, 0x10c770bb8da027b0, 0xc7a4c5e87c63ba25, 0xa830f83239465a2e}
Xoshiro256PP_state ==
    Arr(Hex(<<61, 35, 220, 228, 28, 88, 143, 140>>),
        Hex(<<16, 199, 112, 187, 141, 160, 39, 176>>),
        Hex(<<199, 164, 197, 232, 124, 99, 186, 37>>),
        Hex(<<168, 48, 248, 50, 57, 70, 90, 46>>))

\* void seed(const std::uint64_t seed)
Xoshiro256PP_seed(seed) ==
    LET s0 == splitmix64(splitmix64(seed))
        s1 == splitmix64(s0)
        s2 == splitmix64(s1)
        s3 == splitmix64(s2)
    IN  Arr(s0, s1, s2, s3)

\* seed(const std::uint64_t seed[4]) copying 4 * sizeof(std::uint32_t) bytes.
Xoshiro256PP_seed_array_short(state, seed, bo) ==
    MemArr(memcpy(ArrMem(state, bo), ArrMem(seed, bo), 4 * SizeOf32), SizeOf64, bo)

\* void seed(const std::uint64_t seed[4])
Xoshiro256PP_seed_array(state, seed, bo) ==
    MemArr(memcpy(ArrMem(state, bo), ArrMem(seed, bo), 4 * SizeOf64), SizeOf64, bo)

\* result_type operator()()
Xoshiro256PP_call(state) ==
    LET result == Add(rotl64(Add(S(state, 0), S(state, 3)), 23, Zero(SizeOf64)), S(state, 0))
        t == Shl(S(state, 1), 17, Zero(SizeOf64))
        s2a == Xor(S(state, 2), S(state, 0))
        s3a == Xor(S(state, 3), S(state, 1))
        s1a == Xor(S(state, 1), s2a)
        s0a == Xor(S(state, 0), s3a)
        s2b == Xor(s2a, t)
        s3b == rotl64(s3a, 45, Zero(SizeOf64))
    IN  [state |-> Arr(s0a, s1a, s2b, s3b), result |-> result]

\* void discard(unsigned long long z): the loop from ix on.
RECURSIVE Xoshiro256PP_discard_from(_, _, _)
Xoshiro256PP_discard_from(state, ix, z) ==
    IF ix < z
    THEN Xoshiro256PP_discard_from(Xoshiro256PP_call(state).state, ix + 1, z)
    ELSE state

\* discard with the loop condition ix <= z.
Xoshiro256PP_discard_inclusive(state, z) == Xoshiro256PP_discard_from(state, 0, z + 1)

Xoshiro256PP_discard(state, z) == Xoshiro256PP_discard_from(state, 0, z)

\* bool operator==(const Xoshiro256PP &rhs)
Xoshiro256PP_eq(state, rhs, bo) ==
    ToBool(memcmp(ArrMem(state, bo), ArrMem(rhs, bo), 4 * SizeOf64))

\* bool operator!=(const Xoshiro256PP &rhs)
Xoshiro256PP_ne(state, rhs, bo) ==
    ~ToBool(memcmp(ArrMem(state, bo), ArrMem(rhs, bo), 4 * SizeOf64))

\* operator<<(ost, e): the bytes written to ost.
Xoshiro256PP_write(e, bo) ==
    Mem(S(e, 0), bo) \o <<Space>> \o Mem(S(e, 1), bo) \o <<Space>>
        \o Mem(S(e, 2), bo) \o <<Space>> \o Mem(S(e, 3), bo)

\* operator>>(ist, e): the state left in e and the stream left.
Xoshiro256PP_read(ist, e, bo) ==
    LET r0 == Read(ist, Mem(S(e, 0), bo), SizeOf64)
        r1 == Read(Get(r0.ist), Mem(S(e, 1), bo), SizeOf64)
        r2 == Read(Get(r1.ist), Mem(S(e, 2), bo), SizeOf64)
        r3 == Read(Get(r2.ist), Mem(S(e, 3), bo), SizeOf64)
    IN  [state |-> Arr(Val(r0.mem, bo), Val(r1.mem, bo), Val(r2.mem, bo), Val(r3.mem, bo)),
         ist |-> r3.ist]

---------------------------------------------------------------------------
(* class Xoshiro128PP, xoshiro.hpp lines 206-342.                          *)

\* {0x1c588f8c, 0x3d23dce4, 0x8da027b0, 0x10c770bb}
Xoshiro128PP_state ==
    Arr(Hex(<<28, 88, 143, 140>>), Hex(<<61, 35, 220, 228>>),
        Hex(<<141, 160, 39, 176>>), Hex(<<16, 199, 112, 187>>))

\* void seed(const std::uint64_t seed)
Xoshiro128PP_seed(seed, bo) ==
    LET t1 == splitmix64(seed)
        t2 == splitmix64(t1)
    IN  Arr(Truncate32(splitmix64(ZeroExtend(extract_32bits_from64_left(t1, bo)))),
            Truncate32(splitmix64(ZeroExtend(extract_32bits_from64_right(t1, bo)))),
            Truncate32(splitmix64(ZeroExtend(extract_32bits_from64_left(t2, bo)))),
            Truncate32(splitmix64(ZeroExtend(extract_32bits_from64_right(t2, bo)))))

\* void seed(const std::uint32_t seed); temp is what the uninitialized
\* local holds.
Xoshiro128PP_seed32(seed, temp, bo) ==
    LET temp1 == assign_32bits_to64_left(temp, seed)
        temp2 == assign_32bits_to64_right(temp1, seed)
    IN  Xoshiro128PP_seed(temp2, bo)

\* void seed(const std::uint32_t seed[4])
Xoshiro128PP_seed_array(state, seed, bo) ==
    MemArr(memcpy(ArrMem(state, bo), ArrMem(seed, bo), 4 * SizeOf32), SizeOf32, bo)

\* operator() with the result computed after the transition.
Xoshiro128PP_call_result_last(state) ==
    LET t == Shl(S(state, 1), 9, Zero(SizeOf32))
        s2a == Xor(S(state, 2), S(state, 0))
        s3a == Xor(S(state, 3), S(state, 1))
        s1a == Xor(S(state, 1), s2a)
        s0a == Xor(S(state, 0), s3a)
        s2b == Xor(s2a, t)
        s3b == rotl32(s3a, 11, Zero(SizeOf32))
    IN  [state |-> Arr(s0a, s1a, s2b, s3b),
         result |-> Add(rotl32(Add(s0a, s3b), 7, Zero(SizeOf32)), s0a)]

\* result_type operator()()
Xoshiro128PP_call(state) ==
    LET result == Add(rotl32(Add(S(state, 0), S(state, 3)), 7, Zero(SizeOf32)), S(state, 0))
        t == Shl(S(state, 1), 9, Zero(SizeOf32))
        s2a == Xor(S(state, 2), S(state, 0))
        s3a == Xor(S(state, 3), S(state, 1))
        s1a == Xor(S(state, 1), s2a)
        s0a == Xor(S(state, 0), s3a)
        s2b == Xor(s2a, t)
        s3b == rotl32(s3a, 11, Zero(SizeOf32))
    IN  [state |-> Arr(s0a, s1a, s2b, s3b), result |-> result]

\* void discard(unsigned long long z): the loop from ix on.
RECURSIVE Xoshiro128PP_discard_from(_, _, _)
Xoshiro128PP_discard_from(state, ix, z) ==
    IF ix < z
    THEN Xoshiro128PP_discard_from(Xoshiro128PP_call(state).state, ix + 1, z)
    ELSE state

Xoshiro128PP_discard(state, z) == Xoshiro128PP_discard_from(state, 0, z)

\* bool operator==(const Xoshiro128PP &rhs)
Xoshiro128PP_eq(state, rhs, bo) ==
    ToBool(memcmp(ArrMem(state, bo), ArrMem(rhs, bo), 4 * SizeOf32))

\* bool operator!=(const Xoshiro128PP &rhs)
Xoshiro128PP_ne(state, rhs, bo) ==
    ~ToBool(memcmp(ArrMem(state, bo), ArrMem(rhs, bo), 4 * SizeOf32))

\* operator<<(ost, e): the bytes written to ost.
Xoshiro128PP_write(e, bo) ==
    Mem(S(e, 0), bo) \o <<Space>> \o Mem(S(e, 1), bo) \o <<Space>>
        \o Mem(S(e, 2), bo) \o <<Space>> \o Mem(S(e, 3), bo)

\* operator>>(ist, e): the state left in e and the stream left.
Xoshiro128PP_read(ist, e, bo) ==
    LET r0 == Read(ist, Mem(S(e, 0), bo), SizeOf32)
        r1 == Read(Get(r0.ist), Mem(S(e, 1), bo), SizeOf32)
        r2 == Read(Get(r1.ist), Mem(S(e, 2), bo), SizeOf32)
        r3 == Read(Get(r2.ist), Mem(S(e, 3), bo), SizeOf32)
    IN  [state |-> Arr(Val(r0.mem, bo), Val(r1.mem, bo), Val(r2.mem, bo), Val(r3.mem, bo)),
         ist |-> r3.ist]


---------------------------------------------------------------------------
(* The calls the model makes.                                              *)

\* At most MaxCalls calls are made in a behaviour.
MaxCalls == 3
\* discard is called with z in 0..MaxDiscard.
MaxDiscard == 2
\* The scalar seeds are 0..MaxSeed and the all-ones word.
MaxSeed == 0

Engines == {"Xoshiro256PP", "Xoshiro128PP"}

Seeds64 == {Lit(i, SizeOf64) : i \in 0..MaxSeed} \cup {Ones(SizeOf64)}
Seeds32 == {Lit(i, SizeOf32) : i \in 0..MaxSeed} \cup {Ones(SizeOf32)}

\* The word of n bytes, each of them the space character.
Spaces(n) == Seq1([i \in 1..n |-> Space], n)

\* The arrays given to seed(const std::uintN_t seed[4]): all zero, and one
\* whose every byte is the space character.
SeedArrays(n) ==
    {Arr(Zero(n), Zero(n), Zero(n), Zero(n)),
     Arr(Spaces(n), Spaces(n), Spaces(n), Spaces(n))}

\* The size of a state word of class e.
WordSize(e) == IF e = "Xoshiro256PP" THEN SizeOf64 ELSE SizeOf32

\* The member functions of class e.
DefaultState(e) == IF e = "Xoshiro256PP" THEN Xoshiro256PP_state ELSE Xoshiro128PP_state

SeedArrayOf(e, state, seed, bo) ==
    IF e = "Xoshiro256PP" THEN Xoshiro256PP_seed_array(state, seed, bo)
    ELSE Xoshiro128PP_seed_array(state, seed, bo)

CallOf(e, state) ==
    IF e = "Xoshiro256PP" THEN Xoshiro256PP_call(state) ELSE Xoshiro128PP_call(state)

DiscardOf(e, state, z) ==
    IF e = "Xoshiro256PP" THEN Xoshiro256PP_discard(state, z)
    ELSE Xoshiro128PP_discard(state, z)

EqOf(e, state, rhs, bo) ==
    IF e = "Xoshiro256PP" THEN Xoshiro256PP_eq(state, rhs, bo)
    ELSE Xoshiro128PP_eq(state, rhs, bo)

NeOf(e, state, rhs, bo) ==
    IF e = "Xoshiro256PP" THEN Xoshiro256PP_ne(state, rhs, bo)
    ELSE Xoshiro128PP_ne(state, rhs, bo)

WriteOf(e, state, bo) ==
    IF e = "Xoshiro256PP" THEN Xoshiro256PP_write(state, bo)
    ELSE Xoshiro128PP_write(state, bo)

ReadOf(e, ist, state, bo) ==
    IF e = "Xoshiro256PP" THEN Xoshiro256PP_read(ist, state, bo)
    ELSE Xoshiro128PP_read(ist, state, bo)

\* seed(const std::uint64_t) of either class on every seed of the model: the
\* state each call leaves.
Seeded ==
    {[eng |-> "Xoshiro256PP", bo |-> bo, seed |-> s, state |-> Xoshiro256PP_seed(s)] :
        bo \in ByteOrders, s \in Seeds64}
    \cup
    {[eng |-> "Xoshiro128PP", bo |-> bo, seed |-> s, state |-> Xoshiro128PP_seed(s, bo)] :
        bo \in ByteOrders, s \in Seeds64}

\* Xoshiro128PP::seed(const std::uint32_t) on every seed of the model and
\* every value its uninitialized local can hold.
Seeded32 ==
    {[bo |-> bo, seed |-> s, temp |-> t, state |-> Xoshiro128PP_seed32(s, t, bo)] :
        bo \in ByteOrders, s \in Seeds32, t \in Indeterminate64}

NoCall == [name |-> "none", who |-> 0, arg |-> Void, pre |-> Void, res |-> Void]

Init ==
    /\ byteOrder \in ByteOrders
    /\ eng \in Engines
    /\ g = [x \in Gens |-> DefaultState(eng)]
    /\ ret = [x \in Gens |-> Void]
    /\ op = NoCall
    /\ prev = NoCall
    /\ origin = [x \in Gens |-> [kind |-> "default", arg |-> Void, n |-> 0]]
    /\ stream = IStream(<<>>)
    /\ calls = 0
    /\ rot = Void

\* The call `name` on generator x with argument arg, which leaves x in
\* `state` with origin org.  value is what a call that changes x returns, and
\* res what a comparison returns.
Called(x, name, arg, state, value, res, org) ==
    /\ calls < MaxCalls
    /\ calls' = calls + 1
    /\ g' = [g EXCEPT ![x] = state]
    /\ ret' = [ret EXCEPT ![x] = value]
    /\ op' = [name |-> name, who |-> x, arg |-> arg, pre |-> g[x], res |-> res]
    /\ prev' = op
    /\ origin' = [origin EXCEPT ![x] = org]
    /\ UNCHANGED <<byteOrder, eng, rot>>

\* e.seed(s) with a std::uint64_t s
SeedScalar(x) ==
    \E e \in Seeded :
        /\ e.eng = eng
        /\ e.bo = byteOrder
        /\ Called(x, "seed", e.seed, e.state, Void, Void,
                  [kind |-> "seed", arg |-> e.seed, n |-> 0])
        /\ UNCHANGED stream

\* e.seed(s) with a std::uint32_t s
SeedScalar32(x) ==
    \E e \in Seeded32 :
        /\ eng = "Xoshiro128PP"
        /\ e.bo = byteOrder
        /\ Called(x, "seed32", e.seed, e.state, Void, Void,
                  [kind |-> "seed32", arg |-> e.seed, n |-> 0])
        /\ UNCHANGED stream

\* e.seed(a) with an array a of four words
SeedArray(x) ==
    \E a \in SeedArrays(WordSize(eng)) :
        /\ Called(x, "seed_array", a, SeedArrayOf(eng, g[x], a, byteOrder), Void, Void,
                  [kind |-> "seed_array", arg |-> a, n |-> 0])
        /\ UNCHANGED stream

\* e()
Advance(x) ==
    LET r == CallOf(eng, g[x])
    IN  /\ Called(x, "call", Void, r.state, r.result, Void,
                  [origin[x] EXCEPT !.n = @ + 1])
        /\ UNCHANGED stream

\* e.discard(z)
Discard(x) ==
    \E z \in 0..MaxDiscard :
        /\ Called(x, "discard", z, DiscardOf(eng, g[x], z), Void, Void,
                  [origin[x] EXCEPT !.n = @ + z])
        /\ UNCHANGED stream

\* a == b and a != b: the generators are as they were.
Equal(x, y) ==
    /\ Called(x, "eq", y, g[x], ret[x], EqOf(eng, g[x], g[y], byteOrder), origin[x])
    /\ UNCHANGED stream

NotEqual(x, y) ==
    /\ Called(x, "ne", y, g[x], ret[x], NeOf(eng, g[x], g[y], byteOrder), origin[x])
    /\ UNCHANGED stream

\* ost << e on an empty stream: ist is the stream of the bytes written.
Serialize(x) ==
    /\ Called(x, "write", Void, g[x], ret[x], Void, origin[x])
    /\ stream' = IStream(WriteOf(eng, g[x], byteOrder))

\* ist >> e
Deserialize(x) ==
    LET r == ReadOf(eng, stream, g[x], byteOrder)
    IN  /\ Called(x, "read", Void, r.state, Void, Void,
                  [kind |-> "read", arg |-> Void, n |-> 0])
        /\ stream' = r.ist

Next ==
    \E x \in Gens :
        \/ SeedScalar(x)
        \/ SeedArray(x)
        \/ Advance(x)
        \/ Discard(x)
        \/ \E y \in Gens : Equal(x, y)
        \/ \E y \in Gens : NotEqual(x, y)
        \/ Serialize(x)
        \/ Deserialize(x)

Spec == Init /\ [][Next]_vars

\* Default construction and scalar seeding, operator() and discard only.
NextScalar ==
    \E x \in Gens :
        \/ SeedScalar(x)
        \/ SeedScalar32(x)
        \/ Advance(x)
        \/ Discard(x)

SpecScalar == Init /\ [][NextScalar]_vars


---------------------------------------------------------------------------
(* The rotations called on their own.                                      *)

\* The words rotated: those with one set bit, and the words of the default
\* state.
RotInputs(n) ==
    {OneBit(p, n) : p \in 0..(8 * n - 1)}
    \cup {S(DefaultState(e), 0) : e \in {f \in Engines : WordSize(f) = n}}

\* One rotation is called in a behaviour: the functions are pure, and a call
\* leaves nothing a later call reads.

\* rotl64(x, k) for 0 <= k <= 64
Rotate64 ==
    \E x \in RotInputs(SizeOf64), k \in 0..(8 * SizeOf64) :
        \E undef \in UndefShift(x) :
            /\ rot = Void
            /\ rot' = [fn |-> "rotl64", x |-> x, k |-> k, result |-> rotl64(x, k, undef)]
            /\ UNCHANGED <<byteOrder, eng, g, ret, op, prev, origin, stream, calls>>

\* rotl32(x, k) for 0 <= k <= 32
Rotate32 ==
    \E x \in RotInputs(SizeOf32), k \in 0..(8 * SizeOf32) :
        \E undef \in UndefShift(x) :
            /\ rot = Void
            /\ rot' = [fn |-> "rotl32", x |-> x, k |-> k, result |-> rotl32(x, k, undef)]
            /\ UNCHANGED <<byteOrder, eng, g, ret, op, prev, origin, stream, calls>>

NextBitOps == Rotate64 \/ Rotate32

SpecBitOps == Init /\ [][NextBitOps]_vars


---------------------------------------------------------------------------
(* The claims.                                                             *)

\* The all-zero state of class e.
ZeroState(e) ==
    Arr(Zero(WordSize(e)), Zero(WordSize(e)), Zero(WordSize(e)), Zero(WordSize(e)))

\* k >= 1 successive calls of operator() from `state`: the state left and the
\* value the last call returned.
RECURSIVE Repeated(_, _, _)
Repeated(e, state, k) ==
    IF k = 1 THEN CallOf(e, state)
    ELSE Repeated(e, CallOf(e, state).state, k - 1)

\* Byte i of the circular left rotation of x by k: bit p of x is bit
\* (p + k) mod width of the result.
RECURSIVE RotatedByte(_, _, _, _)
RotatedByte(x, k, i, j) ==
    IF j = 8 THEN 0
    ELSE LET w == 8 * Len(x)
         IN  Bit(x, (8 * (i - 1) + j + 2 * w - k) % w) * Pow2(j)
             + RotatedByte(x, k, i, j + 1)

Rotated(x, k) == Seq1([i \in 1..Len(x) |-> RotatedByte(x, k, i, 0)], Len(x))

\* The upper and the lower 32 bits of a 64-bit word: x >> 32 and x mod 2^32.
HighHalf(x) == SubSeq(x, SizeOf32 + 1, 2 * SizeOf32)
LowHalf(x) == SubSeq(x, 1, SizeOf32)

\* expand of a 32-bit value zero-extended to 64 bits, truncated to 32 bits.
Expand32(h) == Truncate32(splitmix64(ZeroExtend(h)))

\* The 64-bit value whose upper and lower halves both equal the 32-bit s.
Widened(s) == s \o s

\* C1: a == b returns true if and only if the four state words of a are
\* identical to those of b.
C1_EqualIffIdentical ==
    op.name = "eq" => (op.res <=> g[op.who] = g[op.arg])

\* C2: discard(n) and then one call of operator() return the value and leave
\* the state that n + 1 calls of operator() do, and discard(0) leaves the
\* state unchanged.
C2_DiscardThenCall ==
    /\ (op.name = "call" /\ prev.name = "discard" /\ prev.who = op.who)
        => LET r == Repeated(eng, prev.pre, prev.arg + 1)
           IN  g[op.who] = r.state /\ ret[op.who] = r.result
    /\ (op.name = "discard" /\ op.arg = 0) => g[op.who] = op.pre

C2_Witness ==
    /\ op.name = "call" /\ prev.name = "discard" /\ prev.who = op.who
    /\ prev.arg = MaxDiscard
    /\ prev.pre # DefaultState(eng)

\* C3: a generator read from the bytes operator<< wrote for a generator has
\* that generator's four state words, and returns the same values from then on.
C3_RoundTrip ==
    (op.name = "read" /\ prev.name = "write")
        => /\ g[op.who] = prev.pre
           /\ \A k \in 1..2 :
                Repeated(eng, g[op.who], k).result = Repeated(eng, prev.pre, k).result

C3_Witness ==
    /\ op.name = "read" /\ prev.name = "write" /\ prev.who # op.who
    /\ op.pre # g[op.who]
    /\ \E i \in 0..3 : \E j \in 1..WordSize(eng) : S(g[op.who], i)[j] = Space

\* C4: after default construction and scalar seeding, operator() and discard,
\* the state is never all zero.
C4_StateNeverZero == \A x \in Gens : g[x] # ZeroState(eng)

C4_Witness ==
    /\ op.name = "call" /\ prev.name \in {"seed", "seed32"} /\ prev.who = op.who
    /\ prev.arg = Zero(Len(prev.arg))

\* C5: seed(s) with a 32-bit s leaves the state that seed of the 64-bit value
\* with both halves equal to s leaves.
C5_Seed32IsSeedOfWidened ==
    op.name = "seed32" => g[op.who] = Xoshiro128PP_seed(Widened(op.arg), byteOrder)

\* C6: after Xoshiro128PP::seed(s) with a 64-bit s, t1 = expand(s) and
\* t2 = expand(t1): state[0] = expand(highHalf(t1)), state[1] =
\* expand(lowHalf(t1)), state[2] = expand(highHalf(t2)), state[3] =
\* expand(lowHalf(t2)), each truncated to 32 bits.
C6_SeedHighThenLow ==
    (op.name = "seed" /\ eng = "Xoshiro128PP")
        => LET t1 == splitmix64(op.arg)
               t2 == splitmix64(t1)
           IN  g[op.who] = Arr(Expand32(HighHalf(t1)), Expand32(LowHalf(t1)),
                               Expand32(HighHalf(t2)), Expand32(LowHalf(t2)))

\* C6 as amended: the halves are taken in address order, so on a
\* little-endian host state[0] and state[2] come from the lower halves and
\* state[1] and state[3] from the upper ones, and on a big-endian host the
\* other way round.
C6_SeedHalvesInAddressOrder ==
    (op.name = "seed" /\ eng = "Xoshiro128PP")
        => LET t1 == splitmix64(op.arg)
               t2 == splitmix64(t1)
           IN  g[op.who] =
                 IF byteOrder = "little"
                 THEN Arr(Expand32(LowHalf(t1)), Expand32(HighHalf(t1)),
                          Expand32(LowHalf(t2)), Expand32(HighHalf(t2)))
                 ELSE Arr(Expand32(HighHalf(t1)), Expand32(LowHalf(t1)),
                          Expand32(HighHalf(t2)), Expand32(LowHalf(t2)))

C6_Witness ==
    /\ op.name = "seed" /\ eng = "Xoshiro128PP" /\ byteOrder = "little"
    /\ op.arg = Ones(SizeOf64)

\* C7: two generators seeded with the same scalar by the same overload have
\* the same state after the same number of calls of operator(), and their
\* calls return the same values.
C7_SameSeedSameSequence ==
    \A x, y \in Gens :
        (/\ origin[x].kind \in {"seed", "seed32"}
         /\ origin[x].kind = origin[y].kind
         /\ origin[x].arg = origin[y].arg
         /\ origin[x].n = origin[y].n)
        => /\ g[x] = g[y]
           /\ (ret[x] # Void /\ ret[y] # Void) => ret[x] = ret[y]

\* C8: operator() returns rotl(s[0] + s[3], A) + s[0] of the state s before
\* the call, and leaves t = s[1] << B; s[2] ^= s[0]; s[3] ^= s[1];
\* s[1] ^= s[2]; s[0] ^= s[3]; s[2] ^= t; s[3] = rotl(s[3], C) applied to s,
\* with (A, B, C) = (23, 17, 45) on 64-bit words for Xoshiro256PP and
\* (7, 9, 11) on 32-bit words for Xoshiro128PP.
C8_CallIsScrambleThenTransition ==
    op.name = "call"
        => LET s == op.pre
               A == IF eng = "Xoshiro256PP" THEN 23 ELSE 7
               B == IF eng = "Xoshiro256PP" THEN 17 ELSE 9
               C == IF eng = "Xoshiro256PP" THEN 45 ELSE 11
               t == ShiftLeft(S(s, 1), B)
               s2 == Xor(S(s, 2), S(s, 0))
               s3 == Xor(S(s, 3), S(s, 1))
               s1 == Xor(S(s, 1), s2)
               s0 == Xor(S(s, 0), s3)
           IN  /\ ret[op.who] = Add(Rotated(Add(S(s, 0), S(s, 3)), A), S(s, 0))
               /\ g[op.who] = Arr(s0, s1, Xor(s2, t), Rotated(s3, C))

C8_Witness ==
    /\ op.name = "call" /\ prev.name = "call" /\ prev.who = op.who
    /\ origin[op.who].kind = "seed"

\* C9: rotl64(x, k) and rotl32(x, k) are the circular left rotation of x by k
\* for every k from 0 to the width; rotating by 0 and by the width gives x.
C9_RotlIsRotation ==
    rot # Void => rot.result = Rotated(rot.x, rot.k)

\* C10: seeding from an all-zero array leaves the all-zero state, and from
\* the all-zero state operator() and discard leave it and operator() returns 0.
C10_ZeroIsFixedPoint ==
    /\ (op.name = "seed_array" /\ op.arg = ZeroState(eng)) => g[op.who] = ZeroState(eng)
    /\ (op.name \in {"call", "discard"} /\ op.pre = ZeroState(eng))
        => /\ g[op.who] = ZeroState(eng)
           /\ op.name = "call" => ret[op.who] = Zero(WordSize(eng))

C10_Witness ==
    /\ op.name = "call" /\ op.pre = ZeroState(eng)
    /\ prev.name = "discard" /\ prev.arg > 0 /\ prev.who = op.who
    /\ origin[op.who].kind = "seed_array"


=============================================================================
